---------------------------- MODULE Spec2Model ----------------------------
(***************************************************************************)
(* A model of the CourseSearch data-integration pipeline:                  *)
(*   - the Store Upserter (utils/mongoUpserter.js) over the Course         *)
(*     collection (models/MongoCourse.js, unique index on                  *)
(*     (term, subject, catalog_nbr));                                      *)
(*   - the Course Normalizer (class SISProcessor, utils/mongoHelpers.js).  *)
(*                                                                         *)
(* Strings the code only compares and concatenates are TLA+ strings;       *)
(* strings the code converts (toUpperCase, parseInt) are sequences of      *)
(* one-character strings, so that the conversion is computed.              *)
(***************************************************************************)
EXTENDS Integers, Sequences, FiniteSets, Bags, TLC

VARIABLES
    store,      \* the Course collection: a bag of persisted documents
    run,        \* the upsertSubject / bulkUpsertCourses call in progress
    hist,       \* history of the run: what held when it started
    classes,    \* the classes the forEach of processSISResponse has processed
    nterm,      \* the term argument of the call
    coursesMap, \* SISProcessor.coursesMap, in insertion order
    courses,    \* the array processSISResponse returned
    npc,        \* where the processSISResponse call stands
    calls,      \* how many processSISResponse calls the instance has had
    item,       \* one raw record, given to each code path that normalizes it
    sectOut,    \* what each code path made of it
    gpaFile,    \* the ratings file: whether it exists, and its rows
    gpaData,    \* the rating rows the server loaded for the request at hand
    mrow,       \* one section row, given to each code path that merges ratings
    mOut,       \* what each merging code path of the server made of it
    integ,      \* the GPADataIntegrator run
    pipe,       \* the sisToMongo run: where main and processSubject stand
    race        \* two upsertSubject calls under way at once

storeVars == <<store, run, hist>>

normVars == <<classes, nterm, coursesMap, courses, npc, calls>>

sectVars == <<item, sectOut>>

mergeVars == <<gpaFile, gpaData, mrow, mOut, integ>>

syncVars == <<pipe, race>>

vars ==
    <<store, run, hist, classes, nterm, coursesMap, courses, npc, calls, item,
      sectOut, gpaFile, gpaData, mrow, mOut, integ, pipe, race>>

(***************************************************************************)
(* Bounds of the model.                                                    *)
(***************************************************************************)
\* longest batch of course documents handed to upsertSubject
MaxBatch == 2

\* the (term, subject) the pipeline is run for; another term and another
\* subject have documents in the store
RunTerms == {"1262"}
RunSubjects == {"CS"}
OtherTerm == "1258"
OtherSubject == "MATH"
Catalogs == {"1110", "2120", "3140"}

\* creation times: documents persisted before the model starts, and now
T0 == "t0"
Now == "t1"

(***************************************************************************)
(* The Course collection.                                                  *)
(***************************************************************************)
\* A persisted Course: the key fields, the fields a course document
\* supplies (title stands for title, units, attributes, sections and
\* discussions) and createdAt, which the schema's timestamps option sets
\* when the document is inserted and no course document supplies.
Persisted(t, s, c, title, created) ==
    [term |-> t, subject |-> s, catalog_nbr |-> c, title |-> title,
     createdAt |-> created]

\* An enriched course document as SISProcessor.createCourseDocument builds it
CourseDoc(t, s, c, title) ==
    [term |-> t, subject |-> s, catalog_nbr |-> c, title |-> title]

KeyOf(d) == <<d.term, d.subject, d.catalog_nbr>>

\* the documents of collection st that match a filter on the key
Matching(st, t, s, c) ==
    {d \in BagToSet(st) : d.term = t /\ d.subject = s /\ d.catalog_nbr = c}

\* MongoCourse.findOne({term, subject, catalog_nbr}): the set holding the
\* document found, empty when there is none
FindOne(st, t, s, c) ==
    LET M == Matching(st, t, s, c)
    IN  IF M = {} THEN {} ELSE {CHOOSE d \in M : TRUE}

\* the schema's required fields (an empty string fails `required`)
Valid(doc) ==
    /\ doc.term # ""
    /\ doc.subject # ""
    /\ doc.catalog_nbr # ""
    /\ doc.title # ""

RemoveOne(st, d) == st (-) SetToBag({d})
AddOne(st, d) == st (+) SetToBag({d})

\* a store that replaces the matching document by the document given
FindOneAndUpdateReplace(st, doc) ==
    LET found == {d \in BagToSet(st) : d.term = doc.term
                                        /\ d.subject = doc.subject
                                        /\ d.catalog_nbr = doc.catalog_nbr}
        rest == [d \in BagToSet(st) \ found |-> st[d]]
    IN  rest (+) SetToBag({[term |-> doc.term, subject |-> doc.subject,
                            catalog_nbr |-> doc.catalog_nbr, title |-> doc.title,
                            createdAt |-> "t1"]})

\* a store that inserts on every call (no match on the key)
FindOneAndUpdateAlwaysInsert(st, doc) ==
    AddOne(st, Persisted(doc.term, doc.subject, doc.catalog_nbr, doc.title, Now))

\* MongoCourse.findOneAndUpdate(key of doc, doc, {upsert: true, new: true,
\* runValidators: true}) when it does not throw: the one document matching
\* the key gets the fields of doc ($set), its other fields kept; when no
\* document matches, one is inserted.
FindOneAndUpdate(st, doc) ==
    LET found == FindOne(st, doc.term, doc.subject, doc.catalog_nbr)
    IN  IF found = {}
        THEN AddOne(st, Persisted(doc.term, doc.subject, doc.catalog_nbr,
                                  doc.title, Now))
        ELSE LET d == CHOOSE x \in found : TRUE
             IN  AddOne(RemoveOne(st, d), [d EXCEPT !.title = doc.title])

\* a deleteMany that removes every document of the term
DeleteManyWholeTerm(st, t, s) ==
    LET keep == {d \in BagToSet(st) : d.term # t}
    IN  [d \in keep |-> st[d]]

\* a deleteMany that removes nothing
DeleteManyNothing(st, t, s) == st

\* MongoCourse.deleteMany({term, subject})
DeleteMany(st, t, s) ==
    LET keep == {d \in BagToSet(st) : ~(d.term = t /\ d.subject = s)}
    IN  [d \in keep |-> st[d]]

(***************************************************************************)
(* The Store Upserter.                                                     *)
(***************************************************************************)
ZeroStats == [inserted |-> 0, updated |-> 0, failed |-> 0]

IdleRun ==
    [phase |-> "idle", courseDocs |-> <<>>, term |-> "", subject |-> "",
     replaceExisting |-> FALSE, continueOnError |-> TRUE, i |-> 0,
     stats |-> ZeroStats, errors |-> <<>>, results |-> <<>>]

\* what held when the call in progress started: the size of the collection,
\* whether no document of the batch was persisted, whether the call repeats
\* the call before it (then that call's statistics and the collection it left)
NoHist ==
    [countBefore |-> 0, fresh |-> FALSE, rerun |-> FALSE,
     firstStats |-> ZeroStats, firstStore |-> EmptyBag]

\* `${courseDoc.subject} ${courseDoc.catalog_nbr}`
CourseName(doc) == doc.subject \o " " \o doc.catalog_nbr

\* the sequences over S of length at most n without a repeated element
RECURSIVE DistinctSeqs(_, _)
DistinctSeqs(S, n) ==
    IF n = 0 THEN {<<>>}
    ELSE LET shorter == DistinctSeqs(S, n - 1)
         IN  shorter \cup
             {Append(q, x) : q \in {p \in shorter : Len(p) = n - 1}, x \in S}

NoRepeat(q) == \A a, b \in 1..Len(q) : q[a] = q[b] => a = b

\* The batches the pipeline hands to upsertSubject for (t, s): course
\* documents of that term and subject (or of a record without subject) with
\* pairwise distinct catalog numbers (the Course identity of the data model),
\* in any order.
CatalogSeqs == {p \in DistinctSeqs(Catalogs, MaxBatch) : NoRepeat(p)}

\* the subject of a course document made for subject s: s, or the empty
\* string createCourseDocument gives a record without subject, which the
\* schema rejects (subject is required)
DocSubjects(s) == {s, ""}

\* most records without subject in one batch
MaxNoSubject == 1

Batches(t, s) ==
    {[k \in 1..Len(q) |-> CourseDoc(t, subjects[k], q[k], "New")] :
        q \in CatalogSeqs,
        subjects \in {f \in [1..MaxBatch -> DocSubjects(s)] :
                         Cardinality({k \in 1..MaxBatch : f[k] = ""}) <= MaxNoSubject}}

\* the collections the model may start from
SeedStores ==
    { EmptyBag,
      SetToBag({Persisted("1262", "CS", "1110", "Old", T0),
                Persisted("1262", "CS", "2120", "Old", T0),
                Persisted("1262", OtherSubject, "1110", "Old", T0),
                Persisted(OtherTerm, "CS", "1110", "Old", T0)}) }

\* no processSISResponse call has been made
NormIdle ==
    /\ classes = <<>>
    /\ nterm = ""
    /\ coursesMap = <<>>
    /\ courses = <<>>
    /\ npc = "idle"
    /\ calls = 0

\* what a code path has made of the record: nothing yet
NoOut ==
    [done |-> FALSE, list |-> "", status |-> "", available |-> 0,
     startTime |-> [t |-> "undefined", c |-> <<>>, n |-> 0]]

Paths ==
    {"SISProcessor", "SISDataProcessor", "server", "sisDataToMongo", "mongoToCourse"}

\* no record is being normalized
SectIdle ==
    /\ item = <<>>
    /\ sectOut = [p \in Paths |-> NoOut]

\* what a merging code path has made of the row: nothing yet
NoMerge ==
    [runs |-> 0, attempted |-> FALSE, list |-> "", match |-> 0, overlay |-> <<>>,
     first |-> <<>>]

MergePaths == {"transform", "catalog"}

\* no request is served and the integrator has not run
MergeIdle ==
    /\ gpaFile = [exists |-> FALSE, rows |-> <<>>]
    /\ gpaData = <<>>
    /\ mrow = <<>>
    /\ mOut = [p \in MergePaths |-> NoMerge]
    /\ integ = [pc |-> "idle", loaded |-> FALSE, matches |-> <<>>]

\* no sisToMongo run and no overlapping calls
NoPipe ==
    [pc |-> "idle", term |-> "", replace |-> FALSE, si |-> 0, page |-> 0,
     allClasses |-> <<>>, log |-> <<>>, results |-> <<>>]

NoRace == [pc |-> "idle", courseDocs |-> <<>>, at |-> <<>>]

SyncIdle ==
    /\ pipe = NoPipe
    /\ race = NoRace

Init ==
    /\ store \in SeedStores
    /\ run = IdleRun
    /\ hist = NoHist
    /\ NormIdle
    /\ SectIdle
    /\ MergeIdle
    /\ SyncIdle

\* the call repeats the last call, which returned with no failed record
SameAsLast(courseDocs, t, s, replaceExisting) ==
    /\ run.phase = "done"
    /\ run.courseDocs = courseDocs
    /\ run.term = t /\ run.subject = s
    /\ run.replaceExisting = replaceExisting
    /\ run.stats.failed = 0

\* upsertSubject(courseDocs, term, subject, {replaceExisting, continueOnError})
\* up to the first iteration of bulkUpsertCourses: the deleteMany of replace
\* mode (which may throw: storeOk), then resetStats.
UpsertSubject(courseDocs, t, s, replaceExisting, continueOnError, storeOk) ==
    /\ run.phase # "loop"
    /\ IF replaceExisting /\ ~storeOk
       THEN /\ run' = [IdleRun EXCEPT !.phase = "threw", !.courseDocs = courseDocs,
                           !.term = t, !.subject = s,
                           !.replaceExisting = replaceExisting,
                           !.continueOnError = continueOnError]
            /\ store' = store
       ELSE /\ run' = [IdleRun EXCEPT !.phase = "loop", !.courseDocs = courseDocs,
                           !.term = t, !.subject = s,
                           !.replaceExisting = replaceExisting,
                           !.continueOnError = continueOnError]
            /\ store' = IF replaceExisting THEN DeleteMany(store, t, s) ELSE store
    /\ hist' = [countBefore |-> BagCardinality(store),
                fresh |-> \A k \in 1..Len(courseDocs) :
                             FindOne(store, courseDocs[k].term, courseDocs[k].subject,
                                     courseDocs[k].catalog_nbr) = {},
                rerun |-> SameAsLast(courseDocs, t, s, replaceExisting),
                firstStats |-> IF SameAsLast(courseDocs, t, s, replaceExisting)
                               THEN run.stats ELSE ZeroStats,
                firstStore |-> IF SameAsLast(courseDocs, t, s, replaceExisting)
                               THEN store ELSE EmptyBag]
    /\ UNCHANGED <<normVars, sectVars, mergeVars, syncVars>>

\* a classification that takes every record for an update
IsUpdateAlways(st, courseDoc) == TRUE

\* a classification that never sees the persisted document
IsUpdateNever(st, courseDoc) == FALSE

\* const existing = await MongoCourse.findOne({...}); const isUpdate = !!existing
IsUpdate(st, courseDoc) ==
    FindOne(st, courseDoc.term, courseDoc.subject, courseDoc.catalog_nbr) # {}

\* a catch block that does not count the record
RejectedUncounted(r, courseDoc) ==
    [r EXCEPT
        !.errors = Append(@, [course |-> CourseName(courseDoc),
                              error |-> "rejected"]),
        !.results = Append(@, [success |-> FALSE, action |-> "failed",
                               course |-> CourseName(courseDoc)]),
        !.phase = IF r.continueOnError THEN "loop" ELSE "threw",
        !.i = IF r.continueOnError THEN @ + 1 ELSE @]

\* a catch block that rethrows whatever continueOnError says
RejectedRethrows(r, courseDoc) ==
    [r EXCEPT
        !.stats = [@ EXCEPT !.failed = @ + 1],
        !.errors = Append(@, [course |-> CourseName(courseDoc),
                              error |-> "rejected"]),
        !.results = Append(@, [success |-> FALSE, action |-> "failed",
                               course |-> CourseName(courseDoc)]),
        !.phase = "threw"]

\* the catch block of the loop of bulkUpsertCourses, on the run r: the record
\* is counted as failed, its course and the error message go to stats.errors
\* and to the results, and the error is thrown again unless continueOnError
Rejected(r, courseDoc) ==
    [r EXCEPT
        !.stats = [@ EXCEPT !.failed = @ + 1],
        !.errors = Append(@, [course |-> CourseName(courseDoc),
                              error |-> "rejected"]),
        !.results = Append(@, [success |-> FALSE, action |-> "failed",
                               course |-> CourseName(courseDoc)]),
        !.phase = IF r.continueOnError THEN "loop" ELSE "threw",
        !.i = IF r.continueOnError THEN @ + 1 ELSE @]

\* one iteration of the loop of bulkUpsertCourses: findOne, findOneAndUpdate,
\* the statistics and the result entry; the catch block when the store
\* rejects the record (validation) or fails (storeOk = FALSE)
UpsertRecord(storeOk) ==
    /\ run.phase = "loop"
    /\ run.i < Len(run.courseDocs)
    /\ LET courseDoc == run.courseDocs[run.i + 1]
           isUpdate == IsUpdate(store, courseDoc)
       IN  IF storeOk /\ Valid(courseDoc)
           THEN /\ store' = FindOneAndUpdate(store, courseDoc)
                /\ run' = [run EXCEPT
                        !.stats = IF isUpdate
                                  THEN [@ EXCEPT !.updated = @ + 1]
                                  ELSE [@ EXCEPT !.inserted = @ + 1],
                        !.results = Append(@, [success |-> TRUE,
                                               action |-> IF isUpdate THEN "updated"
                                                          ELSE "inserted",
                                               course |-> CourseName(courseDoc)]),
                        !.i = @ + 1]
           ELSE /\ store' = store
                /\ run' = Rejected(run, courseDoc)
    /\ UNCHANGED <<hist, normVars, sectVars, mergeVars, syncVars>>

\* the loop is over: bulkUpsertCourses returns {stats, results} and
\* upsertSubject returns it
Return ==
    /\ run.phase = "loop"
    /\ run.i = Len(run.courseDocs)
    /\ run' = [run EXCEPT !.phase = "done"]
    /\ UNCHANGED <<store, hist, normVars, sectVars, mergeVars, syncVars>>

\* the process is stopped between two awaited store operations
Abort ==
    /\ run.phase = "loop"
    /\ run' = [run EXCEPT !.phase = "aborted"]
    /\ UNCHANGED <<store, hist, normVars, sectVars, mergeVars, syncVars>>

Next ==
    \/ \E t \in RunTerms, s \in RunSubjects, replaceExisting \in BOOLEAN,
          continueOnError \in BOOLEAN :
          \E storeOk \in (IF replaceExisting THEN BOOLEAN ELSE {TRUE}),
             courseDocs \in Batches(t, s) :
             UpsertSubject(courseDocs, t, s, replaceExisting, continueOnError, storeOk)
    \/ \E storeOk \in BOOLEAN : UpsertRecord(storeOk)
    \/ Return
    \/ Abort

Spec == Init /\ [][Next]_vars

(***************************************************************************)
(* Claims about the Store Upserter (specification Spec).                   *)
(***************************************************************************)
Done == run.phase = "done"
NoneFailed == run.stats.failed = 0
BatchSize == Len(run.courseDocs)

\* the persisted Courses of (t, s), as the pairs (catalog number, supplied
\* fields), each with the number of documents that hold it
PersistedFor(st, t, s) ==
    LET docs == {d \in BagToSet(st) : d.term = t /\ d.subject = s}
    IN  {<<d.catalog_nbr, d.title, st[d]>> : d \in docs}

\* the courses of a batch, in the same form
CoursesOf(courseDocs) ==
    {<<courseDocs[k].catalog_nbr, courseDocs[k].title, 1>> :
        k \in 1..Len(courseDocs)}

\* C1: a batch of N course documents with distinct keys, none persisted
\* beforehand and none rejected, upserted without replaceExisting reports
\* inserted = N and updated = 0; the same batch upserted again reports
\* inserted = 0 and updated = N and adds no document to the store.
C1_IdempotentUpsert ==
    (Done /\ ~run.replaceExisting /\ NoneFailed) =>
        /\ hist.fresh =>
              run.stats.inserted = BatchSize /\ run.stats.updated = 0
        /\ hist.rerun =>
              /\ run.stats.inserted = 0 /\ run.stats.updated = BatchSize
              /\ BagCardinality(store) = hist.countBefore

\* the second of two runs of a batch of two, whose first run inserted both
C1_Witness ==
    /\ Done /\ ~run.replaceExisting /\ NoneFailed
    /\ hist.rerun /\ BatchSize = 2
    /\ hist.firstStats.inserted = 2 /\ hist.firstStats.updated = 0
    /\ run.stats.updated = 2

\* C2: after upsertSubject in replaceExisting mode returns with no failed
\* record, the persisted Courses of (term, subject) are exactly the courses
\* of the batch, whatever was persisted before; the same batch run again in
\* replaceExisting mode leaves the same persisted state.
C2_ReplaceMode ==
    (Done /\ run.replaceExisting /\ NoneFailed) =>
        /\ PersistedFor(store, run.term, run.subject) = CoursesOf(run.courseDocs)
        /\ hist.rerun => store = hist.firstStore

\* two Courses of the subject were persisted, the batch holds one: one is left
C2_Witness ==
    /\ Done /\ run.replaceExisting /\ NoneFailed
    /\ BatchSize = 1
    /\ hist.countBefore = 4
    /\ BagCardinality(store) = 3

\* C3: in every reachable state of the store, also between the upserts of a
\* batch that is under way, was aborted or threw, at most one persisted
\* Course exists for each (term, subject, catalog number).
C3_UniqueKey ==
    \A d1, d2 \in BagToSet(store) :
        /\ store[d1] = 1
        /\ KeyOf(d1) = KeyOf(d2) => d1 = d2

\* a batch of two aborted after its first record, which was already persisted
C3_Witness ==
    /\ run.phase = "aborted" /\ BatchSize = 2 /\ run.i = 1
    /\ run.stats.updated = 1
    /\ BagCardinality(store) = 4

\* the run has one result entry for each record of the batch, in order, a
\* failed one for each record the schema rejects, and one entry of
\* stats.errors, with the course and a message, for each failed result
FullReport ==
    /\ Len(run.results) = BatchSize
    /\ \A k \in 1..BatchSize :
          /\ run.results[k].course = CourseName(run.courseDocs[k])
          /\ ~Valid(run.courseDocs[k]) => ~run.results[k].success
    /\ run.stats.inserted + run.stats.updated + run.stats.failed = BatchSize
    /\ run.stats.failed = Len(run.errors)
    /\ run.errors = [k \in 1..Len(run.errors) |->
          [course |-> SelectSeq(run.results, LAMBDA r : ~r.success)[k].course,
           error |-> "rejected"]]

\* a record of the batch was rejected and the error thrown out of the loop
RejectionThrown == run.phase = "threw" /\ run.stats.failed > 0

RecordStep == run.phase = "loop" /\ Len(run'.results) = Len(run.results) + 1

\* the record of the iteration and the result entry it got
StepDoc == run.courseDocs[run.i + 1]
StepResult == run'.results[Len(run'.results)]

\* C21: each record upserted with success is classified updated exactly
\* when a persisted Course with its (term, subject, catalog number) existed
\* immediately before its upsert, and inserted otherwise.
C21_InsertVsUpdate ==
    [][(RecordStep /\ StepResult.success) =>
          /\ StepResult.action \in {"inserted", "updated"}
          /\ StepResult.action = "updated" <=>
                 \E d \in BagToSet(store) : KeyOf(d) = KeyOf(StepDoc)
          /\ run'.stats.updated - run.stats.updated =
                 (IF StepResult.action = "updated" THEN 1 ELSE 0)
          /\ run'.stats.inserted - run.stats.inserted =
                 (IF StepResult.action = "inserted" THEN 1 ELSE 0)]_vars

\* one run whose first record was persisted before and whose second was not
C21_Witness ==
    /\ Done /\ ~run.replaceExisting /\ BatchSize = 2
    /\ run.results[1].success /\ run.results[1].action = "updated"
    /\ run.results[2].success /\ run.results[2].action = "inserted"
    /\ hist.countBefore = 4 /\ BagCardinality(store) = 5

\* the number of documents of st with the key k
CopiesOfKey(st, k) ==
    BagCardinality([d \in {x \in BagToSet(st) : KeyOf(x) = k} |-> st[d]])

\* C23: the upsert of an already persisted Course without replaceExisting
\* makes no second document for its key and keeps every field of the
\* persisted document that the course document does not supply (createdAt).
C23_ResyncPreserves ==
    [][(RecordStep /\ StepResult.success /\ ~run.replaceExisting) =>
          \A d \in BagToSet(store) :
              KeyOf(d) = KeyOf(StepDoc) =>
                  /\ CopiesOfKey(store', KeyOf(d)) = 1
                  /\ BagCardinality(store') = BagCardinality(store)
                  /\ \E e \in BagToSet(store') :
                        /\ KeyOf(e) = KeyOf(d)
                        /\ e.createdAt = d.createdAt
                        /\ e.title = StepDoc.title]_vars

\* a Course persisted at T0 was synced again: it has the new title and is
\* still the document created at T0
C23_Witness ==
    /\ Done /\ ~run.replaceExisting /\ NoneFailed /\ BatchSize = 1
    /\ run.stats.updated = 1
    /\ hist.countBefore = 4 /\ BagCardinality(store) = 4
    /\ \E e \in BagToSet(store) :
          /\ KeyOf(e) = KeyOf(run.courseDocs[1])
          /\ e.title = "New" /\ e.createdAt = T0

\* the documents of st that do not belong to (t, s), with their numbers
OutsideOf(st, t, s) ==
    {<<d, st[d]>> : d \in {x \in BagToSet(st) : ~(x.term = t /\ x.subject = s)}}

KeysOf(st) == {KeyOf(d) : d \in BagToSet(st)}

\* C24: persisted Courses are removed only by upsertSubject with
\* replaceExisting, and then only those of its (term, subject); in both
\* modes the Courses of every other (term, subject) stay as they are.
C24_ScopedDeletion ==
    [][/\ (KeysOf(store) \ KeysOf(store') # {}) =>
             /\ run.phase # "loop" /\ run'.phase = "loop"
             /\ run'.replaceExisting
             /\ \A k \in KeysOf(store) \ KeysOf(store') :
                   k[1] = run'.term /\ k[2] = run'.subject
       /\ OutsideOf(store', run'.term, run'.subject)
             = OutsideOf(store, run'.term, run'.subject)]_vars

\* a replace run removed the two persisted Courses of its subject, stored
\* another, and left the Courses of the other subject and the other term
C24_Witness ==
    /\ Done /\ run.replaceExisting /\ NoneFailed /\ BatchSize = 1
    /\ run.courseDocs[1].catalog_nbr = "3140"
    /\ hist.countBefore = 4
    /\ KeysOf(store) = {<<"1262", "CS", "3140">>, <<"1262", OtherSubject, "1110">>,
                         <<OtherTerm, "CS", "1110">>}

\* the number of result entries that satisfy Test
CountResults(Test(_)) == Len(SelectSeq(run.results, Test))

\* C26: after bulkUpsertCourses over N course documents with
\* continueOnError every record has exactly one outcome: inserted + updated
\* + failed = N, the results have N entries, and no record counts both as
\* inserted or updated and as failed.
C26_OutcomeAccounting ==
    (Done /\ run.continueOnError) =>
        /\ run.stats.inserted + run.stats.updated + run.stats.failed = BatchSize
        /\ Len(run.results) = BatchSize
        /\ \A k \in 1..Len(run.results) :
              run.results[k].success <=> run.results[k].action # "failed"
        /\ run.stats.inserted = CountResults(LAMBDA r : r.action = "inserted")
        /\ run.stats.updated = CountResults(LAMBDA r : r.action = "updated")
        /\ run.stats.failed = CountResults(LAMBDA r : ~r.success)

\* a batch of two with one record updated and one failed
C26_Witness ==
    /\ Done /\ run.continueOnError /\ BatchSize = 2
    /\ run.stats.updated = 1 /\ run.stats.failed = 1 /\ run.stats.inserted = 0
    /\ run.results[1].action = "updated" /\ run.results[2].action = "failed"


(***************************************************************************)
(* JavaScript values of the raw records.  A text value (subject, title,    *)
(* status, ...) is undefined, null or a string; a value the code converts  *)
(* (component, the enrollment counts) is undefined, null, a string given   *)
(* as its characters, or a number.                                         *)
(***************************************************************************)
JUndefined == [t |-> "undefined", s |-> ""]
JNull == [t |-> "null", s |-> ""]
JStr(x) == [t |-> "string", s |-> x]

CUndefined == [t |-> "undefined", c |-> <<>>, n |-> 0]
CNull == [t |-> "null", c |-> <<>>, n |-> 0]
CStr(chars) == [t |-> "string", c |-> chars, n |-> 0]
CNum(k) == [t |-> "number", c |-> <<>>, n |-> k]

\* JavaScript truthiness
Truthy(v) == v.t = "string" /\ v.s # ""
TruthyC(v) == (v.t = "string" /\ v.c # <<>>) \/ (v.t = "number" /\ v.n # 0)

\* `${v}`
TemplateStr(v) ==
    CASE v.t = "undefined" -> "undefined"
      [] v.t = "null" -> "null"
      [] OTHER -> v.s

\* v || d, for a text value v and a string d
OrElse(v, d) == IF Truthy(v) THEN v.s ELSE d

\* v || '', for a value given by its characters
CharsOrEmpty(v) == IF TruthyC(v) THEN v.c ELSE <<>>

LowerCase ==
    <<"a", "b", "c", "d", "e", "f", "g", "h", "i", "j", "k", "l", "m",
      "n", "o", "p", "q", "r", "s", "t", "u", "v", "w", "x", "y", "z">>
UpperCase ==
    <<"A", "B", "C", "D", "E", "F", "G", "H", "I", "J", "K", "L", "M",
      "N", "O", "P", "Q", "R", "S", "T", "U", "V", "W", "X", "Y", "Z">>

UpperChar(ch) ==
    IF \E k \in 1..Len(LowerCase) : LowerCase[k] = ch
    THEN UpperCase[CHOOSE k \in 1..Len(LowerCase) : LowerCase[k] = ch]
    ELSE ch

\* String.prototype.toUpperCase
toUpperCase(chars) == [k \in 1..Len(chars) |-> UpperChar(chars[k])]

Digits == <<"0", "1", "2", "3", "4", "5", "6", "7", "8", "9">>
IsDigit(ch) == \E k \in 1..Len(Digits) : Digits[k] = ch
DigitValue(ch) == (CHOOSE k \in 1..Len(Digits) : Digits[k] = ch) - 1

RECURSIVE SkipSpaces(_)
SkipSpaces(chars) ==
    IF chars # <<>> /\ Head(chars) = " " THEN SkipSpaces(Tail(chars)) ELSE chars

\* the value of the digits chars starts with, after the value acc
RECURSIVE LeadingDigits(_, _)
LeadingDigits(chars, acc) ==
    IF chars = <<>> \/ ~IsDigit(Head(chars)) THEN acc
    ELSE LeadingDigits(Tail(chars), 10 * acc + DigitValue(Head(chars)))

NaN == [nan |-> TRUE, n |-> 0]
Number(k) == [nan |-> FALSE, n |-> k]

\* parseInt of a string: leading blanks, a sign, then digits up to the
\* first other character; NaN when no digit is there
ParseIntChars(chars) ==
    LET s1 == SkipSpaces(chars)
        signed == s1 # <<>> /\ Head(s1) \in {"-", "+"}
        s2 == IF signed THEN Tail(s1) ELSE s1
    IN  IF s2 = <<>> \/ ~IsDigit(Head(s2)) THEN NaN
        ELSE IF signed /\ Head(s1) = "-"
             THEN Number(0 - LeadingDigits(s2, 0))
             ELSE Number(LeadingDigits(s2, 0))

\* parseInt(v)
parseInt(v) ==
    CASE v.t = "string" -> ParseIntChars(v.c)
      [] v.t = "number" -> Number(v.n)
      [] OTHER -> NaN

\* p || d, for the result p of parseInt (NaN and 0 are falsy)
NumOr(p, d) == IF p.nan \/ p.n = 0 THEN d ELSE p.n

\* Math.max
Max(a, b) == IF a >= b THEN a ELSE b

(***************************************************************************)
(* Meeting times.                                                          *)
(***************************************************************************)
TBA == <<"T", "B", "A">>
AM == <<"A", "M">>
PM == <<"P", "M">>

AllDigits(chars) == \A k \in 1..Len(chars) : IsDigit(chars[k])

\* timeStr.match(/^(\d{1,2})\.(\d{2})\.\d{2}\.\d{6}$/): the hours and the
\* minutes matched, <<>> when the string does not match
MatchSISTime(chars) ==
    LET h == Len(chars) - 13
    IN  IF /\ h \in {1, 2}
           /\ AllDigits(SubSeq(chars, 1, h))
           /\ chars[h + 1] = "."
           /\ AllDigits(SubSeq(chars, h + 2, h + 3))
           /\ chars[h + 4] = "."
           /\ AllDigits(SubSeq(chars, h + 5, h + 6))
           /\ chars[h + 7] = "."
           /\ AllDigits(SubSeq(chars, h + 8, h + 13))
        THEN <<SubSeq(chars, 1, h), SubSeq(chars, h + 2, h + 3)>>
        ELSE <<>>

\* (\d{1,2}):(\d{2})\s*(AM|PM), case-insensitive, matches at place i of chars
\* with d digits of hours
ClockAt(chars, i, d) ==
    /\ i + d + 2 <= Len(chars)
    /\ AllDigits(SubSeq(chars, i, i + d - 1))
    /\ chars[i + d] = ":"
    /\ AllDigits(SubSeq(chars, i + d + 1, i + d + 2))
    /\ LET rest == SkipSpaces(SubSeq(chars, i + d + 3, Len(chars)))
       IN  Len(rest) >= 2 /\ toUpperCase(SubSeq(rest, 1, 2)) \in {AM, PM}

\* timeStr.match(/(\d{1,2}):(\d{2})\s*(AM|PM)/i): the hours, the minutes and
\* the period of the leftmost match, <<>> when there is none
MatchClockTime(chars) ==
    LET places == {i \in 1..Len(chars) : \E d \in {1, 2} : ClockAt(chars, i, d)}
    IN  IF places = {} THEN <<>>
        ELSE LET i == CHOOSE x \in places : \A y \in places : x <= y
                 d == IF ClockAt(chars, i, 2) THEN 2 ELSE 1
                 rest == SkipSpaces(SubSeq(chars, i + d + 3, Len(chars)))
             IN  <<SubSeq(chars, i, i + d - 1),
                   SubSeq(chars, i + d + 1, i + d + 2),
                   toUpperCase(SubSeq(rest, 1, 2))>>

\* function parseTime(timeStr) of mongoHelpers.js, on a string or undefined
parseTime(timeStr) ==
    IF ~TruthyC(timeStr) \/ timeStr = CStr(TBA) THEN 0
    ELSE LET timeMatch == MatchSISTime(timeStr.c)
         IN  IF timeMatch # <<>>
             THEN ParseIntChars(timeMatch[1]).n * 100 + ParseIntChars(timeMatch[2]).n
             ELSE IF ~parseInt(timeStr).nan THEN parseInt(timeStr).n ELSE 0

\* SISDataProcessor.convertTimeTo24Hour, on a string or undefined
convertTimeTo24Hour(timeStr) ==
    IF ~TruthyC(timeStr) THEN 0
    ELSE LET timeMatch == MatchSISTime(timeStr.c)
             timeMatch2 == MatchClockTime(timeStr.c)
         IN  IF timeMatch # <<>>
             THEN ParseIntChars(timeMatch[1]).n * 100 + ParseIntChars(timeMatch[2]).n
             ELSE IF timeMatch2 # <<>>
                  THEN LET hours == ParseIntChars(timeMatch2[1]).n
                           minutes == ParseIntChars(timeMatch2[2]).n
                           period == timeMatch2[3]
                           hours24 == IF period = PM /\ hours # 12 THEN hours + 12
                                      ELSE IF period = AM /\ hours = 12 THEN 0
                                      ELSE hours
                       IN  hours24 * 100 + minutes
                  ELSE 0

\* SISDataProcessor.parseTime(raw): the start time of raw.meetings[0]
parseTimeData(raw) ==
    IF raw.meetings = <<>> THEN 0
    ELSE convertTimeTo24Hour(raw.meetings[1].start_time)

(***************************************************************************)
(* The Course Normalizer: class SISProcessor.                              *)
(***************************************************************************)
\* const courseKey = `${classItem.subject}-${classItem.catalog_nbr}`
courseKey(classItem) ==
    TemplateStr(classItem.subject) \o "-" \o TemplateStr(classItem.catalog_nbr)

\* SISProcessor.createCourseDocument
createCourseDocument(classItem, term) ==
    [term |-> term,
     subject |-> OrElse(classItem.subject, ""),
     catalog_nbr |-> OrElse(classItem.catalog_nbr, ""),
     title |-> OrElse(classItem.descr,
                      OrElse(classItem.course_title, "No title available")),
     units |-> OrElse(classItem.units, ""),
     courseAttributes |-> OrElse(classItem.crse_attr,
                                 OrElse(classItem.course_attributes, "")),
     courseAttributeValues |-> OrElse(classItem.crse_attr_value,
                                 OrElse(classItem.course_attribute_values, "")),
     requirements |-> OrElse(classItem.rqmnt_designtn, ""),
     sections |-> <<>>,
     discussions |-> <<>>]

\* SISProcessor.parseEnrollment
parseEnrollment(classItem) ==
    LET current == NumOr(parseInt(classItem.enrollment_total), 0)
        max == NumOr(parseInt(classItem.class_capacity), 0)
    IN  [current |-> current,
         max |-> max,
         available |-> NumOr(parseInt(classItem.enrollment_available),
                             Max(0, max - current)),
         waitlist |-> NumOr(parseInt(classItem.wait_tot), 0),
         waitlistCapacity |-> NumOr(parseInt(classItem.wait_cap), 0)]

\* SISProcessor.determineStatus
determineStatus(classItem) ==
    IF classItem.enrl_stat = JStr("W") \/ classItem.enrl_stat_descr = JStr("Wait List")
    THEN "Wait List"
    ELSE IF Truthy(classItem.enrl_stat_descr)
         THEN classItem.enrl_stat_descr.s
         ELSE IF NumOr(parseInt(classItem.enrollment_available), 0) > 0
              THEN "Open"
              ELSE "Closed"

NoGpaData ==
    [instructorGPA |-> "N/A", instructorRating |-> "N/A",
     instructorDifficulty |-> "N/A", instructorLastTaught |-> "N/A"]

\* SISProcessor.parseMeetings on the meetings array of the record (the
\* records have no flattened meeting fields): the start time of each meeting
parseMeetings(classItem) ==
    [k \in 1..Len(classItem.meetings) |->
        [startTime |-> CharsOrEmpty(classItem.meetings[k].start_time)]]

\* SISProcessor.getDefaultSchedule
getDefaultSchedule == [startTime |-> <<>>]

\* SISProcessor.createSectionData: the section number, class number and
\* component, the start time of the schedule, the enrollment, the status and
\* the rating placeholder
createSectionData(classItem) ==
    [sectionNumber |-> OrElse(classItem.class_section, ""),
     startTime |-> (IF Len(parseMeetings(classItem)) > 0
                    THEN parseMeetings(classItem)[1]
                    ELSE getDefaultSchedule).startTime,
     classNumber |-> OrElse(classItem.class_nbr, ""),
     component |-> CharsOrEmpty(classItem.component),
     enrollment |-> parseEnrollment(classItem),
     status |-> determineStatus(classItem),
     gpaData |-> NoGpaData]

LEC == <<"L", "E", "C">>
LAB == <<"L", "A", "B">>
DIS == <<"D", "I", "S">>
SEM == <<"S", "E", "M">>
SPS == <<"S", "P", "S">>
IND == <<"I", "N", "D">>
PRA == <<"P", "R", "A">>
TUT == <<"T", "U", "T">>
LECTURE == <<"L", "E", "C", "T", "U", "R", "E">>
SEMINAR == <<"S", "E", "M", "I", "N", "A", "R">>

\* a classification that takes every record for a lecture
isLectureSectionAlways(component) == TRUE

\* SISProcessor.isLectureSection
isLectureSection(component) ==
    toUpperCase(CharsOrEmpty(component)) \in {LEC, LECTURE, SEM, SEMINAR}

\* the place of key in the map, 0 when the map has no such key
MapIndex(map, key) ==
    IF \E m \in 1..Len(map) : map[m].key = key
    THEN CHOOSE m \in 1..Len(map) : map[m].key = key
    ELSE 0

\* a lookup that overwrites the course found with the record at hand
GetOrCreateOverwrite(map, classItem, term) ==
    LET key == courseKey(classItem)
        m == MapIndex(map, key)
        fresh == createCourseDocument(classItem, term)
    IN  IF m = 0
        THEN Append(map, [key |-> key, doc |-> fresh])
        ELSE [map EXCEPT ![m].doc =
                 [fresh EXCEPT !.sections = map[m].doc.sections,
                               !.discussions = map[m].doc.discussions]]

\* let courseDoc = this.coursesMap.get(courseKey); if (!courseDoc) {...}
GetOrCreate(map, classItem, term) ==
    LET key == courseKey(classItem)
    IN  IF MapIndex(map, key) = 0
        THEN Append(map, [key |-> key,
                          doc |-> createCourseDocument(classItem, term)])
        ELSE map

\* SISProcessor.processClass, on the map
processClass(map, classItem, term) ==
    LET created == GetOrCreate(map, classItem, term)
        m == MapIndex(created, courseKey(classItem))
        sectionData == createSectionData(classItem)
    IN  IF isLectureSection(classItem.component)
        THEN [created EXCEPT ![m].doc.sections = Append(@, sectionData)]
        ELSE [created EXCEPT ![m].doc.discussions = Append(@, sectionData)]

\* start times as the registration source gives them
TenOClock == <<"1", "0", ".", "0", "0", ".", "0", "0", ".", "0", "0", "0", "0", "0", "0">>
Midnight == <<"0", "0", ".", "0", "0", ".", "0", "0", ".", "0", "0", "0", "0", "0", "0">>
HalfPastNine == <<"9", ".", "3", "0", ".", "0", "0", ".", "0", "0", "0", "0", "0", "0">>

\* a raw record of the registration source, as the sample of
\* test-processor.js gives it
BaseItem ==
    [subject |-> JStr("CS"), catalog_nbr |-> JStr("1110"),
     descr |-> JStr("Intro"), course_title |-> JUndefined,
     units |-> JStr("3"), crse_attr |-> JUndefined,
     course_attributes |-> JUndefined, crse_attr_value |-> JUndefined,
     course_attribute_values |-> JUndefined, rqmnt_designtn |-> JUndefined,
     class_section |-> JStr("001"), class_nbr |-> JStr("20001"),
     component |-> CStr(LEC),
     enrl_stat |-> JStr("O"), enrl_stat_descr |-> JStr("Open"),
     class_capacity |-> CStr(<<"3", "0">>),
     enrollment_total |-> CStr(<<"2", "8">>),
     enrollment_available |-> CStr(<<"2">>),
     wait_tot |-> CStr(<<"0">>), wait_cap |-> CStr(<<"2", "0">>),
     meetings |-> <<[start_time |-> CStr(TenOClock)]>>]

\* longest batch of raw records handed to processSISResponse
MaxRecords == 3

\* most processSISResponse calls made on one SISProcessor instance
MaxCalls == 3

\* the raw records of the batches: lectures and other components of one
\* course, of other courses, and records whose subject or catalog number is
\* missing, null or empty
NormItems ==
    { BaseItem,
      [BaseItem EXCEPT !.class_section = JStr("002"), !.descr = JStr("Intro II"),
                       !.units = JStr("4"), !.crse_attr = JStr("QR")],
      [BaseItem EXCEPT !.class_section = JStr("101"), !.component = CStr(LAB),
                       !.descr = JUndefined, !.course_title = JStr("Intro Lab")],
      [BaseItem EXCEPT !.catalog_nbr = JStr("2120"), !.component = CStr(SEM),
                       !.descr = JStr("Seminar")],
      [BaseItem EXCEPT !.subject = JStr("MATH"), !.component = CUndefined,
                       !.descr = JUndefined],
      [BaseItem EXCEPT !.subject = JUndefined],
      [BaseItem EXCEPT !.subject = JStr(""), !.component = CStr(<<"l", "a", "b">>),
                       !.descr = JStr("No subject")],
      [BaseItem EXCEPT !.subject = JNull, !.component = CStr(DIS)],
      [BaseItem EXCEPT !.catalog_nbr = JStr(""), !.component = CStr(<<>>)],
      [BaseItem EXCEPT !.catalog_nbr = JUndefined, !.component = CStr(IND)],
      [BaseItem EXCEPT !.class_section = JUndefined, !.descr = JStr("No section")],
      [BaseItem EXCEPT !.subject = JStr("CS-1"), !.catalog_nbr = JStr("10"),
                       !.descr = JStr("Dash in subject")],
      [BaseItem EXCEPT !.subject = JStr("CS"), !.catalog_nbr = JStr("1-10"),
                       !.descr = JStr("Dash in number")] }

\* sisResponse.classes.forEach(classItem => this.processClass(classItem, term))
\* on the map, for the classes recs
RECURSIVE ProcessAll(_, _, _)
ProcessAll(map, recs, term) ==
    IF recs = <<>> THEN map
    ELSE ProcessAll(processClass(map, Head(recs), term), Tail(recs), term)

\* Array.from(this.coursesMap.values())
MapValues(map) == [m \in 1..Len(map) |-> map[m].doc]

\* a clear that leaves the map as it is
clearNothing(map) == map

\* this.coursesMap.clear()
clear(map) == <<>>

\* the terms processSISResponse is called with
NormTerms == RunTerms \cup {OtherTerm}

\* processSISResponse(sisResponse, term) with a well-formed response, up to
\* this.coursesMap.clear()
ProcessSISResponse(term) ==
    /\ npc # "processing"
    /\ calls < MaxCalls
    /\ calls' = calls + 1
    /\ classes' = <<>>
    /\ nterm' = term
    /\ coursesMap' = clear(coursesMap)
    /\ courses' = <<>>
    /\ npc' = "processing"
    /\ UNCHANGED <<storeVars, sectVars, mergeVars, syncVars>>

\* processSISResponse with no response, or one whose classes is no array:
\* it throws before it touches the map
ProcessInvalidResponse ==
    /\ npc # "processing"
    /\ calls < MaxCalls
    /\ calls' = calls + 1
    /\ npc' = "threw"
    /\ courses' = <<>>
    /\ UNCHANGED <<classes, nterm, coursesMap>>
    /\ UNCHANGED <<storeVars, sectVars, mergeVars, syncVars>>

\* one iteration of sisResponse.classes.forEach, on the next class of the
\* response
ProcessClass(classItem) ==
    /\ npc = "processing"
    /\ Len(classes) < MaxRecords
    /\ coursesMap' = processClass(coursesMap, classItem, nterm)
    /\ classes' = Append(classes, classItem)
    /\ UNCHANGED <<nterm, courses, npc, calls>>
    /\ UNCHANGED <<storeVars, sectVars, mergeVars, syncVars>>

\* the response has no further class:
\* return Array.from(this.coursesMap.values())
ReturnCourses ==
    /\ npc = "processing"
    /\ courses' = MapValues(coursesMap)
    /\ npc' = "returned"
    /\ UNCHANGED <<classes, nterm, coursesMap, calls>>
    /\ UNCHANGED <<storeVars, sectVars, mergeVars, syncVars>>

InitNorm ==
    /\ store = EmptyBag
    /\ run = IdleRun
    /\ hist = NoHist
    /\ NormIdle
    /\ SectIdle
    /\ MergeIdle
    /\ SyncIdle

NextNorm ==
    \/ \E term \in NormTerms : ProcessSISResponse(term)
    \/ ProcessInvalidResponse
    \/ \E classItem \in NormItems : ProcessClass(classItem)
    \/ ReturnCourses

SpecNorm == InitNorm /\ [][NextNorm]_vars


(***************************************************************************)
(* One raw record through each code path that normalizes it.               *)
(***************************************************************************)
\* function determineStatus(available, status) of mongoHelpers.js
determineStatusOf(available, status) ==
    IF status = JStr("W") THEN "Wait List"
    ELSE IF ~parseInt(available).nan /\ parseInt(available).n > 0 THEN "Open"
         ELSE "Closed"

\* function getEnrollmentStatus(available, status) of server.js
getEnrollmentStatus(available, status) ==
    IF status = JStr("W") THEN "Wait List"
    ELSE IF ~parseInt(available).nan /\ parseInt(available).n > 0 THEN "Open"
         ELSE "Closed"

\* SISDataProcessor.isLectureSection, on cls.component || raw.component || ''
isLectureSectionData(component) ==
    toUpperCase(CharsOrEmpty(component)) \in {LEC, LECTURE, SEM, SEMINAR}

\* transformSISDataToCourses: row.component === 'DIS' || ... === 'SPS'
isDiscussionRow(component) ==
    component.t = "string" /\ component.c \in {DIS, LAB, SEM, SPS}

\* the component codes of the records: the codes of the registration
\* source in upper and lower case, an unknown code, and no code
ComponentValues ==
    { CStr(LEC), CStr(LAB), CStr(DIS), CStr(SEM), CStr(SPS), CStr(IND),
      CStr(PRA), CStr(TUT), CStr(LECTURE), CStr(SEMINAR),
      CStr(<<"l", "e", "c">>), CStr(<<"l", "a", "b">>), CStr(<<"S", "e", "m">>),
      CStr(<<"X", "Y", "Z">>), CStr(<<>>), CUndefined, CNull }

StatusCodes == {JStr("O"), JStr("C"), JStr("W"), JUndefined}

StatusDescriptions ==
    {JUndefined, JStr(""), JStr("Open"), JStr("Closed"), JStr("Wait List"),
     JStr("Cancelled")}

AvailableValues ==
    { CUndefined, CNull, CStr(<<>>), CStr(<<"0">>), CStr(<<"5">>),
      CStr(<<"1", "5">>), CStr(<<"-", "3">>), CStr(<<"T", "B", "A">>),
      CNum(0), CNum(7) }

CapacityValues == {CUndefined, CStr(<<"3", "0">>), CNum(10)}

EnrolledValues == {CUndefined, CStr(<<"2", "8">>), CStr(<<"3", "5">>), CNum(4)}

\* the start times of a meeting: none, empty, "TBA", midnight and other
\* times in the format of the registration source, a clock time, digits
TimeValues ==
    { CUndefined, CStr(<<>>), CStr(TBA), CStr(Midnight), CStr(TenOClock),
      CStr(HalfPastNine), CStr(<<"1", "2", ":", "0", "0", " ", "A", "M">>), CStr(<<"1", ":", "3", "0", " ", "p", "m">>), CStr(<<"1", "3", "3", "0">>), CStr(<<"n", "o", "o", "n">>) }

\* the meetings of a record: none, or one with a start time
MeetingValues == {<<>>} \cup {<<[start_time |-> time]>> : time \in TimeValues}

\* the records: every component code on the sample record, and every
\* combination of status code, status description and enrollment counts,
\* and every meeting on the sample record
SectItems ==
    {[BaseItem EXCEPT !.component = comp] : comp \in ComponentValues}
    \cup
    {[BaseItem EXCEPT !.enrl_stat = code, !.enrl_stat_descr = descr,
                      !.enrollment_available = avail, !.class_capacity = cap,
                      !.enrollment_total = enrolled] :
        code \in StatusCodes, descr \in StatusDescriptions,
        avail \in AvailableValues, cap \in CapacityValues,
        enrolled \in EnrolledValues}
    \cup
    {[BaseItem EXCEPT !.meetings = meetings] : meetings \in MeetingValues}

\* SISProcessor.processClass on the record: its section entry and the list
\* the entry is pushed to
SISProcessClass ==
    /\ ~sectOut["SISProcessor"].done
    /\ LET sectionData == createSectionData(item)
       IN  sectOut' = [sectOut EXCEPT !["SISProcessor"] =
               [done |-> TRUE,
                list |-> IF isLectureSection(item.component)
                         THEN "sections" ELSE "discussions",
                status |-> sectionData.status,
                available |-> sectionData.enrollment.available,
                startTime |-> CStr(sectionData.startTime)]]
    /\ UNCHANGED <<item, storeVars, normVars, mergeVars, syncVars>>

\* SISDataProcessor.processClass on the record (given as cls and as cls.raw):
\* the list its section goes to and the start time createSection or
\* createDiscussion gives it.  Every record of SectItems has a subject, a
\* numeric catalog number and a section number, so the early return for
\* missing data is not taken.
SISDataProcessClass ==
    /\ ~sectOut["SISDataProcessor"].done
    /\ sectOut' = [sectOut EXCEPT !["SISDataProcessor"] =
           [NoOut EXCEPT !.done = TRUE,
                         !.list = IF isLectureSectionData(item.component)
                                  THEN "sections" ELSE "discussions",
                         !.startTime = CNum(parseTimeData(item))]]
    /\ UNCHANGED <<item, storeVars, normVars, mergeVars, syncVars>>

\* transformSISDataToCourses of server.js on the record as a row: the status
\* of its section and the list it is pushed to
TransformRow ==
    /\ ~sectOut["server"].done
    /\ sectOut' = [sectOut EXCEPT !["server"] =
           [NoOut EXCEPT !.done = TRUE,
                         !.list = IF isDiscussionRow(item.component)
                                  THEN "discussions" ELSE "sections",
                         !.status = getEnrollmentStatus(item.enrollment_available,
                                                        item.enrl_stat)]]
    /\ UNCHANGED <<item, storeVars, normVars, mergeVars, syncVars>>

\* sisDataToMongo of mongoHelpers.js on the record as a row: the status and
\* the available seats of its sectionData
SisDataToMongo ==
    /\ ~sectOut["sisDataToMongo"].done
    /\ sectOut' = [sectOut EXCEPT !["sisDataToMongo"] =
           [NoOut EXCEPT !.done = TRUE,
                         !.status = determineStatusOf(item.enrollment_available,
                                                      item.enrl_stat),
                         !.available = NumOr(parseInt(item.enrollment_available), 0)]]
    /\ UNCHANGED <<item, storeVars, normVars, mergeVars, syncVars>>

\* mongoToCourse of mongoHelpers.js on the section entry SISProcessor made of
\* the record: the start time of the Section
MongoToCourse ==
    /\ sectOut["SISProcessor"].done
    /\ ~sectOut["mongoToCourse"].done
    /\ sectOut' = [sectOut EXCEPT !["mongoToCourse"] =
           [NoOut EXCEPT !.done = TRUE,
                         !.startTime =
                             CNum(parseTime(sectOut["SISProcessor"].startTime))]]
    /\ UNCHANGED <<item, storeVars, normVars, mergeVars, syncVars>>

InitSect ==
    /\ store = EmptyBag
    /\ run = IdleRun
    /\ hist = NoHist
    /\ NormIdle
    /\ item \in SectItems
    /\ sectOut = [p \in Paths |-> NoOut]
    /\ MergeIdle
    /\ SyncIdle

NextSect ==
    \/ SISProcessClass
    \/ SISDataProcessClass
    \/ TransformRow
    \/ SisDataToMongo
    \/ MongoToCourse

SpecSect == InitSect /\ [][NextSect]_vars


(***************************************************************************)
(* Claims about the Course Normalizer (specification SpecNorm) and about   *)
(* the normalization of one record (specification SpecSect).               *)
(***************************************************************************)
Returned == npc = "returned"

\* how many entries of a list of section entries carry component code
CountEntries(list, code) ==
    Cardinality({k \in 1..Len(list) : list[k].component = code})

\* the places in the processed classes of the records with map key key
RecordsOf(key) == {k \in 1..Len(classes) : courseKey(classes[k]) = key}

\* C4: no two Course aggregates returned by one processSISResponse call have
\* the same (term, subject, catalog number), also when records lack a
\* subject or a catalog number.
C4_KeyUniqueness ==
    Returned =>
        \A a, b \in 1..Len(courses) :
            (/\ courses[a].term = courses[b].term
             /\ courses[a].subject = courses[b].subject
             /\ courses[a].catalog_nbr = courses[b].catalog_nbr) => a = b

\* the (subject, catalog number) of a record, as the course document has them
CourseOf(classItem) ==
    <<OrElse(classItem.subject, ""), OrElse(classItem.catalog_nbr, "")>>

\* every record processed names its subject and its catalog number
AllIdentified ==
    \A k \in 1..Len(classes) :
        Truthy(classes[k].subject) /\ Truthy(classes[k].catalog_nbr)

\* C25: for a batch whose records all name their subject and catalog
\* number, processSISResponse returns one Course aggregate for each distinct
\* (subject, catalog number) of the batch, and each aggregate holds the
\* entries of the records with its subject and catalog number and of no
\* other record.
C25_ExactGrouping ==
    (Returned /\ AllIdentified) =>
        /\ Len(courses) = Cardinality({CourseOf(classes[k]) : k \in 1..Len(classes)})
        /\ \A m \in 1..Len(courses) :
              Len(courses[m].sections) + Len(courses[m].discussions) =
                  Cardinality({k \in 1..Len(classes) :
                                  CourseOf(classes[k]) =
                                      <<courses[m].subject, courses[m].catalog_nbr>>})

\* the component codes the classification rule sends to `discussions`
DiscussionCodes == {LAB, DIS, SEM, SPS, IND, PRA, TUT}

\* C5: the entry of every record goes to `discussions` if its component
\* code, compared case-insensitively, is one of LAB, DIS, SEM, SPS, IND, PRA,
\* TUT, and to `sections` for every other code, unknown and empty included.
C5_ClassificationRule ==
    \A m \in 1..Len(coursesMap) :
        LET doc == coursesMap[m].doc
        IN  /\ \A k \in 1..Len(doc.discussions) :
                  toUpperCase(doc.discussions[k].component) \in DiscussionCodes
            /\ \A k \in 1..Len(doc.sections) :
                  toUpperCase(doc.sections[k].component) \notin DiscussionCodes
            /\ Len(doc.sections) + Len(doc.discussions)
                  = Cardinality(RecordsOf(coursesMap[m].key))

\* C6: every record with component "LAB" is in the `discussions` of its
\* course and every record with component "LEC" in its `sections`, each
\* once, and never in the other list.
C6_LabLecPlacement ==
    \A m \in 1..Len(coursesMap) :
        LET doc == coursesMap[m].doc
            mine == RecordsOf(coursesMap[m].key)
        IN  /\ CountEntries(doc.discussions, LAB)
                  = Cardinality({k \in mine : classes[k].component = CStr(LAB)})
            /\ CountEntries(doc.sections, LEC)
                  = Cardinality({k \in mine : classes[k].component = CStr(LEC)})
            /\ CountEntries(doc.sections, LAB) = 0
            /\ CountEntries(doc.discussions, LEC) = 0

\* a returned course with a lecture in `sections` and a lab in `discussions`
C6_Witness ==
    /\ Returned
    /\ \E m \in 1..Len(coursesMap) :
          /\ CountEntries(coursesMap[m].doc.sections, LEC) >= 1
          /\ CountEntries(coursesMap[m].doc.discussions, LAB) >= 1

\* C7: SISProcessor.processClass, SISDataProcessor.processClass and
\* transformSISDataToCourses put a record on the same side, whatever its
\* component code.
C7_ConsistentClassification ==
    (/\ sectOut["SISProcessor"].done
     /\ sectOut["SISDataProcessor"].done
     /\ sectOut["server"].done) =>
        /\ sectOut["SISProcessor"].list = sectOut["SISDataProcessor"].list
        /\ sectOut["SISProcessor"].list = sectOut["server"].list

\* the first processed record with map key key
FirstWith(key) ==
    CHOOSE k \in RecordsOf(key) : \A j \in RecordsOf(key) : k <= j

Entries(doc) ==
    {doc.sections[k] : k \in 1..Len(doc.sections)}
    \cup {doc.discussions[k] : k \in 1..Len(doc.discussions)}

\* C8: the title, units and attribute fields of a Course aggregate are
\* those of the first record of the batch with its key; the later records of
\* the course leave them as they are and add one section entry each.
C8_FirstRecordWins ==
    \A m \in 1..Len(coursesMap) :
        LET doc == coursesMap[m].doc
            mine == RecordsOf(coursesMap[m].key)
            first == classes[FirstWith(coursesMap[m].key)]
        IN  /\ mine # {}
            /\ doc.title = OrElse(first.descr,
                                  OrElse(first.course_title, "No title available"))
            /\ doc.units = OrElse(first.units, "")
            /\ doc.courseAttributes
                  = OrElse(first.crse_attr, OrElse(first.course_attributes, ""))
            /\ Len(doc.sections) + Len(doc.discussions) = Cardinality(mine)
            /\ \A k \in mine : createSectionData(classes[k]) \in Entries(doc)

\* a returned course built from three records, the later ones with another
\* title and other units than the first
C8_Witness ==
    /\ Returned
    /\ \E m \in 1..Len(coursesMap) :
          LET mine == RecordsOf(coursesMap[m].key)
          IN  /\ Cardinality(mine) = 3
              /\ \A k \in mine \ {FirstWith(coursesMap[m].key)} :
                    /\ OrElse(classes[k].descr, "") # coursesMap[m].doc.title
                    /\ classes[k].component # classes[FirstWith(coursesMap[m].key)].component

\* the status the rule gives a record: by the status code, then by the
\* available seats
RuleStatus(rec) ==
    IF rec.enrl_stat = JStr("W") THEN "Wait List"
    ELSE IF ~parseInt(rec.enrollment_available).nan
            /\ parseInt(rec.enrollment_available).n > 0
         THEN "Open"
         ELSE "Closed"

\* C9: the normalized status of a record is "Wait List" if its status code
\* signals waitlist, otherwise "Open" if available seats > 0, otherwise
\* "Closed", whatever its status description says.
C9_DerivedStatus ==
    \A p \in {"SISProcessor", "server", "sisDataToMongo"} :
        sectOut[p].done =>
            /\ sectOut[p].status = RuleStatus(item)
            /\ sectOut[p].status \in {"Wait List", "Open", "Closed"}

\* C10: the normalized available seats are the source value whenever the
\* source supplies one (a supplied 0 included), max(0, capacity - enrolled)
\* when it supplies none, and never negative.
C10_Available ==
    sectOut["SISProcessor"].done =>
        LET supplied == parseInt(item.enrollment_available)
            capacity == NumOr(parseInt(item.class_capacity), 0)
            enrolled == NumOr(parseInt(item.enrollment_total), 0)
            available == sectOut["SISProcessor"].available
        IN  /\ ~supplied.nan => available = supplied.n
            /\ supplied.nan => available = Max(0, capacity - enrolled)
            /\ available >= 0

\* a raw record that has a subject, a catalog number and a section number
WellFormed(classItem) ==
    /\ Truthy(classItem.subject)
    /\ Truthy(classItem.catalog_nbr)
    /\ Truthy(classItem.class_section)

\* C11: a raw record missing subject, catalog number or section number
\* contributes no Course and no section entry: what processSISResponse
\* returns is what it returns for the well-formed records of the batch alone.
C11_MalformedSkipped ==
    Returned =>
        courses = MapValues(ProcessAll(<<>>, SelectSeq(classes, WellFormed), nterm))

\* the record has no meeting, or a meeting with an empty or "TBA" start time
Unscheduled(rec) ==
    \/ rec.meetings = <<>>
    \/ ~TruthyC(rec.meetings[1].start_time)
    \/ rec.meetings[1].start_time = CStr(TBA)

\* the record of a real meeting that starts at midnight
MidnightItem == [BaseItem EXCEPT !.meetings = <<[start_time |-> CStr(Midnight)]>>]

\* what each conversion makes of the start time of the midnight meeting
MidnightOut ==
    [p \in {"SISProcessor", "mongoToCourse", "SISDataProcessor"} |->
        CASE p = "SISProcessor" -> CStr(createSectionData(MidnightItem).startTime)
          [] p = "mongoToCourse" ->
                CNum(parseTime(CStr(createSectionData(MidnightItem).startTime)))
          [] p = "SISDataProcessor" -> CNum(parseTimeData(MidnightItem))]

\* C12: the start time an unscheduled record (no meeting, or an empty or
\* "TBA" time) normalizes to is never the value a meeting that starts at
\* midnight normalizes to, in SISProcessor, in parseTime and in
\* convertTimeTo24Hour.
C12_UnscheduledMarker ==
    \A p \in DOMAIN MidnightOut :
        (sectOut[p].done /\ Unscheduled(item)) =>
            sectOut[p].startTime # MidnightOut[p]

\* C13: what the Normalizer makes of a batch and a term is a function of the
\* batch and the term alone: whatever batches the SISProcessor instance has
\* processed before, the map it builds and the courses it returns are those a
\* fresh instance builds from the same classes in the same order, so two runs
\* on one batch return equal aggregates.
C13_Deterministic ==
    /\ npc = "processing" => coursesMap = ProcessAll(<<>>, classes, nterm)
    /\ Returned => courses = MapValues(ProcessAll(<<>>, classes, nterm))

\* the third batch of one instance has been processed and returned, after a
\* batch that returned courses
C13_Witness ==
    /\ Returned
    /\ calls = 3
    /\ Len(classes) = 2
    /\ Len(courses) = 1
    /\ Len(courses[1].sections) = 1 /\ Len(courses[1].discussions) = 1


(***************************************************************************)
(* The Rating Merger: loadGPAData, findMatchingGPA and the merges of        *)
(* server.js, and GPADataIntegrator.  A rating row has its department and   *)
(* course number as strings and its other fields as their characters; its   *)
(* place in the array stands for the row object.                            *)
(***************************************************************************)
\* the character U+2014
EMDASH == "{U+2014}"
NA == <<"N", "/", "A">>

\* instructorNames.split(sep): the parts, the first of them after cur
RECURSIVE SplitAcc(_, _, _)
SplitAcc(chars, sep, cur) ==
    IF chars = <<>> THEN <<cur>>
    ELSE IF Head(chars) = sep
         THEN <<cur>> \o SplitAcc(Tail(chars), sep, <<>>)
         ELSE SplitAcc(Tail(chars), sep, Append(cur, Head(chars)))

\* String.prototype.split
split(chars, sep) == SplitAcc(chars, sep, <<>>)

RECURSIVE DropTrailingSpaces(_)
DropTrailingSpaces(chars) ==
    IF chars # <<>> /\ chars[Len(chars)] = " "
    THEN DropTrailingSpaces(SubSeq(chars, 1, Len(chars) - 1))
    ELSE chars

\* String.prototype.trim
trim(chars) == DropTrailingSpaces(SkipSpaces(chars))

\* the digits chars starts with
RECURSIVE DigitsPrefix(_)
DigitsPrefix(chars) ==
    IF chars = <<>> \/ ~IsDigit(Head(chars)) THEN <<>>
    ELSE <<Head(chars)>> \o DigitsPrefix(Tail(chars))

\* parseFloat of a string, in hundredths: leading blanks, a sign, digits, a
\* point and digits; NaN when no digit is there.  (The strings of the model
\* have at most two digits after the point and no exponent.)
parseFloat(chars) ==
    LET s1 == SkipSpaces(chars)
        signed == s1 # <<>> /\ Head(s1) \in {"-", "+"}
        s2 == IF signed THEN Tail(s1) ELSE s1
        whole == DigitsPrefix(s2)
        s3 == SubSeq(s2, Len(whole) + 1, Len(s2))
        frac == IF s3 # <<>> /\ Head(s3) = "." THEN DigitsPrefix(Tail(s3)) ELSE <<>>
        hundredths == LeadingDigits(whole, 0) * 100
                      + LeadingDigits(SubSeq(frac \o <<"0", "0">>, 1, 2), 0)
    IN  IF whole = <<>> /\ frac = <<>> THEN NaN
        ELSE IF signed /\ Head(s1) = "-" THEN Number(0 - hundredths)
             ELSE Number(hundredths)

\* gpaData.find(gpa => gpa.department === subject && gpa.courseNumber
\* .toString() === catalogNbr.toString() && gpa.instructorName === instructor):
\* the place of the first such row, 0 when there is none
FindFirst(rows, subject, catalogNbr, instructor) ==
    LET hits == {k \in 1..Len(rows) : /\ rows[k].department = subject
                                      /\ rows[k].courseNumber = catalogNbr
                                      /\ rows[k].instructorName = instructor}
    IN  IF hits = {} THEN 0 ELSE CHOOSE k \in hits : \A j \in hits : k <= j

\* the loop of findMatchingGPA over the instructors left, from the best
\* match and the best GPA (in hundredths) so far
RECURSIVE BestMatch(_, _, _, _, _, _)
BestMatch(rows, subject, catalogNbr, instructors, bestMatch, bestGPA) ==
    IF instructors = <<>> THEN bestMatch
    ELSE LET match == FindFirst(rows, subject, catalogNbr, Head(instructors))
             usable == /\ match # 0
                       /\ rows[match].instructorGPA # <<>>
                       /\ rows[match].instructorGPA # <<EMDASH>>
                       /\ rows[match].instructorGPA # NA
             gpa == parseFloat(rows[match].instructorGPA)
         IN  IF usable /\ ~gpa.nan /\ gpa.n > bestGPA
             THEN BestMatch(rows, subject, catalogNbr, Tail(instructors), match, gpa.n)
             ELSE BestMatch(rows, subject, catalogNbr, Tail(instructors),
                            bestMatch, bestGPA)

\* instructorNames.split(';').map(name => name.trim())
InstructorsOf(instructorNames) ==
    [k \in 1..Len(split(instructorNames, ";")) |->
        trim(split(instructorNames, ";")[k])]

\* findMatchingGPA(gpaData, subject, catalogNbr, instructorNames): the place
\* of the row returned, 0 for null
findMatchingGPA(rows, subject, catalogNbr, instructorNames) ==
    BestMatch(rows, subject, catalogNbr, InstructorsOf(instructorNames), 0, -100)

\* loadGPAData of server.js: the rows of the file, [] when there is no file
loadGPAData(file) == IF file.exists THEN file.rows ELSE <<>>

\* the four overlay fields all 'N/A'
NAOverlay ==
    [instructorGPA |-> NA, instructorRating |-> NA,
     instructorDifficulty |-> NA, instructorLastTaught |-> NA]

\* value || 'N/A'
OrNA(chars) == IF chars # <<>> THEN chars ELSE NA

\* an overlay that copies the fields of the match as they are
OverlayOfMatchOnly(rows, match) ==
    IF match # 0
    THEN [instructorGPA |-> rows[match].instructorGPA,
          instructorRating |-> rows[match].instructorRating,
          instructorDifficulty |-> rows[match].instructorDifficulty,
          instructorLastTaught |-> rows[match].instructorLastTaught]
    ELSE [instructorGPA |-> <<>>, instructorRating |-> <<>>,
          instructorDifficulty |-> <<>>, instructorLastTaught |-> <<>>]

\* the overlay fields the merges of server.js set: those of the match, each
\* || 'N/A'; without a match 'N/A' (set by transformSISDataToCourses; in the
\* /catalog merge left as mongoToCourse copied them from the placeholder
\* SISProcessor.createSectionData stored)
OverlayOf(rows, match) ==
    IF match # 0
    THEN [instructorGPA |-> OrNA(rows[match].instructorGPA),
          instructorRating |-> OrNA(rows[match].instructorRating),
          instructorDifficulty |-> OrNA(rows[match].instructorDifficulty),
          instructorLastTaught |-> OrNA(rows[match].instructorLastTaught)]
    ELSE NAOverlay

\* a merge that fills the empty fields of the matched row in place
RatingsAfterFilled(rows, match) ==
    IF match = 0 THEN rows
    ELSE [rows EXCEPT ![match].instructorRating = OrNA(@),
                      ![match].instructorDifficulty = OrNA(@),
                      ![match].instructorLastTaught = OrNA(@)]

\* the rating rows after the merge of one section: the merges read the match
\* and write to the section alone
RatingsAfter(rows, match) == rows

\* row.instructor_names && row.instructor_names !== 'TBA'
HasInstructor(instructorNames) ==
    TruthyC(instructorNames) /\ instructorNames # CStr(TBA)

\* what transformSISDataToCourses makes of one row: the overlay of its section
\* and the list the section is pushed to
TransformSection(rows, row) ==
    LET attempted == HasInstructor(row.instructor_names)
        match == IF attempted
                 THEN findMatchingGPA(rows, row.subject, row.catalog_nbr,
                                      row.instructor_names.c)
                 ELSE 0
    IN  [attempted |-> attempted,
         match |-> match,
         overlay |-> OverlayOf(rows, match),
         list |-> IF isDiscussionRow(row.component)
                  THEN "discussions" ELSE "sections"]

\* instructors.map(i => i.name).join('; ') || 'TBA', for the instructors the
\* row names
TeacherName(row) ==
    IF TruthyC(row.instructor_names) THEN row.instructor_names ELSE CStr(TBA)

\* what the /catalog route makes of the entry SISProcessor stored for the
\* row: mongoToCourse, then the merge into course.sections and into
\* course.discussions
CatalogSection(rows, row) ==
    LET attempted == HasInstructor(TeacherName(row))
        match == IF attempted
                 THEN findMatchingGPA(rows, row.subject, row.catalog_nbr,
                                      TeacherName(row).c)
                 ELSE 0
    IN  [attempted |-> attempted,
         match |-> match,
         overlay |-> OverlayOf(rows, match),
         list |-> IF isLectureSection(row.component)
                  THEN "sections" ELSE "discussions"]

Al == <<"A", "l">>
Bo == <<"B", "o">>

\* longest ratings file, in rows
MaxRows == 2

\* how many times one request is served
MaxMergeRuns == 2

RatingRow(department, courseNumber, instructorName, gpa, rating) ==
    [department |-> department, courseNumber |-> courseNumber,
     instructorName |-> instructorName, instructorGPA |-> gpa,
     instructorRating |-> rating, instructorDifficulty |-> <<"2">>,
     instructorLastTaught |-> <<>>]

\* the rows of the ratings file: two instructors of one course, rows that
\* repeat an instructor, sentinel GPAs, equal GPAs, another course and
\* another department
RatingRows ==
    { RatingRow("CS", "2120", Al, <<"3", ".", "2">>, <<"4">>),
      RatingRow("CS", "2120", Bo, <<"3", ".", "8">>, <<"3">>),
      RatingRow("CS", "2120", Al, <<"3", ".", "8">>, <<>>),
      RatingRow("CS", "2120", Bo, <<"3", ".", "2", "0">>, <<"5">>),
      RatingRow("CS", "2120", Bo, NA, <<"3">>),
      RatingRow("CS", "2120", Al, <<EMDASH>>, <<"4">>),
      RatingRow("CS", "3140", Al, <<"3", ".", "9">>, <<"4">>),
      RatingRow("MATH", "2120", Bo, <<"3", ".", "9">>, <<"4">>) }

\* the sequences over S of length at most n
RECURSIVE SeqsUpTo(_, _)
SeqsUpTo(S, n) ==
    IF n = 0 THEN {<<>>}
    ELSE LET shorter == SeqsUpTo(S, n - 1)
         IN  shorter \cup
             {Append(q, x) : q \in {r \in shorter : Len(r) = n - 1}, x \in S}

\* the ratings file: absent, or with up to MaxRows rows
GpaFiles ==
    {[exists |-> FALSE, rows |-> <<>>]}
    \cup {[exists |-> TRUE, rows |-> rows] : rows \in SeqsUpTo(RatingRows, MaxRows)}

\* the instructor strings of a section: one name, two names joined by a
\* semicolon with and without blanks, a variant of a name, 'TBA', none
InstructorStrings ==
    { CStr(Al), CStr(Bo), CStr(<<"A", "l", ";", " ", "B", "o">>), CStr(<<"B", "o", ";", "A", "l">>),
      CStr(<<" ", "B", "o", " ", ";", " ", "A", "l">>), CStr(<<"A", ".", " ", "L">>), CStr(TBA), CUndefined }

\* the section rows: a lecture and a lab of CS 2120
MergeRows ==
    {[subject |-> "CS", catalog_nbr |-> "2120", component |-> CStr(comp),
      instructor_names |-> names] :
        comp \in {LEC, LAB}, names \in InstructorStrings}

\* what a merging path holds after it served the request once more
Served(out, section) ==
    [runs |-> out.runs + 1,
     attempted |-> section.attempted,
     list |-> section.list,
     match |-> section.match,
     overlay |-> section.overlay,
     first |-> IF out.runs = 0 THEN section.overlay ELSE out.first]

\* the /catalog route without a MongoDB connection: loadGPAData, then
\* transformSISDataToCourses, on the row
TransformMerge ==
    /\ mOut["transform"].runs < MaxMergeRuns
    /\ LET rows == loadGPAData(gpaFile)
           section == TransformSection(rows, mrow)
       IN  /\ gpaData' = RatingsAfter(rows, section.match)
           /\ mOut' = [mOut EXCEPT !["transform"] = Served(@, section)]
    /\ UNCHANGED <<gpaFile, mrow, integ>>
    /\ UNCHANGED <<storeVars, normVars, sectVars, syncVars>>

\* the /catalog route with MongoDB: loadGPAData, mongoToCourse, then the
\* merge into the sections and the discussions, on the entry stored for the row
CatalogMerge ==
    /\ mOut["catalog"].runs < MaxMergeRuns
    /\ LET rows == loadGPAData(gpaFile)
           section == CatalogSection(rows, mrow)
       IN  /\ gpaData' = RatingsAfter(rows, section.match)
           /\ mOut' = [mOut EXCEPT !["catalog"] = Served(@, section)]
    /\ UNCHANGED <<gpaFile, mrow, integ>>
    /\ UNCHANGED <<storeVars, normVars, sectVars, syncVars>>

\* GPADataIntegrator.findMatchingInstructor
findMatchingInstructor(rows, teacherName, courseMnemonic, courseNumber) ==
    FindFirst(rows, courseMnemonic, courseNumber, teacherName)

\* GPADataIntegrator.run up to loadGPAData: it returns false when the file
\* does not exist
IntegratorLoadFails ==
    /\ integ.pc = "idle"
    /\ ~gpaFile.exists
    /\ integ' = [integ EXCEPT !.pc = "failed"]
    /\ UNCHANGED <<gpaFile, gpaData, mrow, mOut>>
    /\ UNCHANGED <<storeVars, normVars, sectVars, syncVars>>

\* GPADataIntegrator.run with the file there: loadGPAData, then integrateData
\* on the section of the row, whose instructors are the names of the row
IntegratorRun ==
    /\ integ.pc = "idle"
    /\ gpaFile.exists
    /\ LET names == IF TruthyC(mrow.instructor_names)
                    THEN InstructorsOf(mrow.instructor_names.c) ELSE <<>>
       IN  integ' = [pc |-> "done", loaded |-> TRUE,
                     matches |-> [k \in 1..Len(names) |->
                         findMatchingInstructor(gpaFile.rows, names[k],
                                                mrow.subject, mrow.catalog_nbr)]]
    /\ UNCHANGED <<gpaFile, gpaData, mrow, mOut>>
    /\ UNCHANGED <<storeVars, normVars, sectVars, syncVars>>

InitMerge ==
    /\ store = EmptyBag
    /\ run = IdleRun
    /\ hist = NoHist
    /\ NormIdle
    /\ SectIdle
    /\ gpaFile \in GpaFiles
    /\ gpaData = <<>>
    /\ mrow \in MergeRows
    /\ mOut = [p \in MergePaths |-> NoMerge]
    /\ integ = [pc |-> "idle", loaded |-> FALSE, matches |-> <<>>]
    /\ SyncIdle

NextMerge ==
    \/ TransformMerge
    \/ CatalogMerge
    \/ IntegratorLoadFails
    \/ IntegratorRun

SpecMerge == InitMerge /\ [][NextMerge]_vars

(***************************************************************************)
(* Claims about the Rating Merger.                                          *)
(***************************************************************************)
\* the merging path p has served the request
Merged(p) == mOut[p].runs > 0

\* the instructor string path p matches on
InstructorStringOf(p) ==
    IF p = "catalog" THEN TeacherName(mrow) ELSE mrow.instructor_names

\* the trimmed candidate names of that string
NamesOf(p) ==
    IF TruthyC(InstructorStringOf(p))
    THEN {InstructorsOf(InstructorStringOf(p).c)[k] :
             k \in 1..Len(InstructorsOf(InstructorStringOf(p).c))}
    ELSE {}

\* the rating rows that exactly match the course of the row and one of the
\* candidate names
ExactMatches(p) ==
    {k \in 1..Len(gpaFile.rows) :
        /\ gpaFile.rows[k].department = mrow.subject
        /\ gpaFile.rows[k].courseNumber = mrow.catalog_nbr
        /\ gpaFile.rows[k].instructorName \in NamesOf(p)}

\* the GPA of row k is a number and no sentinel
NumericGPA(k) ==
    /\ gpaFile.rows[k].instructorGPA \notin {<<>>, <<EMDASH>>, NA}
    /\ ~parseFloat(gpaFile.rows[k].instructorGPA).nan

GpaOf(k) == parseFloat(gpaFile.rows[k].instructorGPA).n

\* C14: the matcher returns, among the rating rows that exactly match the
\* subject, the catalog number and a trimmed candidate name and that have a
\* numeric GPA, one with the highest parsed GPA, and nothing when there is
\* no such row; a row with a sentinel GPA is never returned.
C14_BestPick ==
    \A p \in MergePaths :
        (Merged(p) /\ mOut[p].attempted) =>
            LET numeric == {k \in ExactMatches(p) : NumericGPA(k)}
            IN  IF numeric = {} THEN mOut[p].match = 0
                ELSE /\ mOut[p].match \in numeric
                     /\ \A j \in numeric : GpaOf(j) <= GpaOf(mOut[p].match)

\* C15: after the merge a section whose instructor string exactly matches no
\* rating row has all four overlay fields equal to "N/A".
C15_NoMatchFallback ==
    \A p \in MergePaths :
        (Merged(p) /\ ExactMatches(p) = {}) => mOut[p].overlay = NAOverlay

\* a section with a variant of a rated instructor's name was merged and got
\* the four "N/A"
C15_Witness ==
    /\ Merged("transform") /\ Merged("catalog")
    /\ mrow.instructor_names = CStr(<<"A", ".", " ", "L">>)
    /\ \E k \in 1..Len(gpaFile.rows) :
          /\ gpaFile.rows[k].instructorName = Al
          /\ gpaFile.rows[k].courseNumber = mrow.catalog_nbr
          /\ gpaFile.rows[k].department = mrow.subject
    /\ mOut["transform"].overlay.instructorGPA = NA
    /\ mOut["catalog"].overlay.instructorLastTaught = NA

\* C16: no rating match is attempted for an entry of discussions, and a
\* discussion entry never carries overlay values copied from a rating row.
C16_NoDiscussionOverlay ==
    \A p \in MergePaths :
        (Merged(p) /\ mOut[p].list = "discussions") =>
            ~mOut[p].attempted /\ mOut[p].match = 0

LaterDuplicates(k) ==
    {j \in (k + 1)..Len(gpaFile.rows) :
        /\ gpaFile.rows[j].department = gpaFile.rows[k].department
        /\ gpaFile.rows[j].courseNumber = gpaFile.rows[k].courseNumber
        /\ gpaFile.rows[j].instructorName = gpaFile.rows[k].instructorName}

\* C18: of several rating rows for the same subject, course number and
\* instructor the one used for the instructor's match is the last.
C18_LastDuplicateWins ==
    /\ \A p \in MergePaths :
          (Merged(p) /\ mOut[p].match # 0) => LaterDuplicates(mOut[p].match) = {}
    /\ \A k \in 1..Len(integ.matches) :
          integ.matches[k] # 0 => LaterDuplicates(integ.matches[k]) = {}

\* C19: without a ratings file the merge goes on with no rating rows, the
\* section gets the four "N/A", and the run is not reported as failed.
C19_AbsentFileTolerated ==
    ~gpaFile.exists =>
        /\ integ.pc # "failed"
        /\ \A p \in MergePaths :
              Merged(p) => gpaData = <<>> /\ mOut[p].overlay = NAOverlay

(***************************************************************************)
(* The sync script sisToMongo: main with --all, processSubject and          *)
(* fetchAllPagesForSubject, on the store of the upserter.                   *)
(***************************************************************************)
\* const maxPages = 50
maxPages == 50

\* the pages of a subject whose records the registration source may vary
MaxVariedPages == 1

\* loadDepartments(): the subjects main goes through
Departments == <<"CS", OtherSubject>>

\* a raw record of course (s, c)
RawRecord(s, c) ==
    [BaseItem EXCEPT !.subject = JStr(s), !.catalog_nbr = JStr(c)]

\* the classes the source may give for page p of subject s
PageClasses(s, p) ==
    IF p <= MaxVariedPages
    THEN { <<RawRecord(s, "2120")>>,
           <<RawRecord(s, "1110"), RawRecord(s, "3140")>> }
    ELSE { <<RawRecord(s, "1110")>> }

\* what fetchSISPage(term, s, p) may return: a failure (no response, a
\* status outside 2xx, a body that is no JSON), a page without classes, a
\* page with classes
FetchResults(s, p) ==
    { [success |-> FALSE, classes |-> <<>>, count |-> 0],
      [success |-> TRUE, classes |-> <<>>, count |-> 0] }
    \cup {[success |-> TRUE, classes |-> c, count |-> Len(c)] : c \in PageClasses(s, p)}

\* a concat that puts the page in front
concatFront(allClasses, pageClasses) == pageClasses \o allClasses

\* allClasses.concat(result.classes)
concat(allClasses, pageClasses) == allClasses \o pageClasses

\* one iteration of the while loop of fetchAllPagesForSubject, with the
\* result of fetchSISPage, and the test of the loop that follows it
FetchPage ==
    /\ pipe.pc = "fetch"
    /\ \E result \in FetchResults(Departments[pipe.si], pipe.page) :
          pipe' = IF ~result.success \/ result.count = 0
                  THEN [pipe EXCEPT !.log = Append(@, result), !.pc = "fetched"]
                  ELSE [pipe EXCEPT
                          !.log = Append(@, result),
                          !.allClasses = concat(@, result.classes),
                          !.page = @ + 1,
                          !.pc = IF pipe.page + 1 <= maxPages
                                 THEN "fetch" ELSE "fetched"]
    /\ UNCHANGED <<storeVars, normVars, sectVars, mergeVars, race>>

\* the loop of bulkUpsertCourses with continueOnError on a store that
\* answers: the collection and the statistics after the documents docs
RECURSIVE BulkUpsert(_, _, _)
BulkUpsert(st, docs, stats) ==
    IF docs = <<>> THEN [store |-> st, stats |-> stats]
    ELSE IF Valid(Head(docs))
         THEN BulkUpsert(FindOneAndUpdate(st, Head(docs)), Tail(docs),
                         IF IsUpdate(st, Head(docs))
                         THEN [stats EXCEPT !.updated = @ + 1]
                         ELSE [stats EXCEPT !.inserted = @ + 1])
         ELSE BulkUpsert(st, Tail(docs), [stats EXCEPT !.failed = @ + 1])

\* the course documents of processSISResponse, with the fields the store of
\* the model keeps
StoreDocs(classItems, term) ==
    LET docs == MapValues(ProcessAll(<<>>, classItems, term))
    IN  [k \in 1..Len(docs) |->
            CourseDoc(docs[k].term, docs[k].subject, docs[k].catalog_nbr,
                      docs[k].title)]

\* a test that never finds the fetch empty
NoClassesNever(allClasses) == FALSE

\* fetchResult.totalClasses === 0
NoClasses(allClasses) == Len(allClasses) = 0

\* a fetch of the subject failed
FetchFailed(log) == \E k \in 1..Len(log) : ~log[k].success

\* a main that ends its loop after a subject with a failed fetch
AfterSubjectStopOnError(p, result) ==
    [p EXCEPT !.results = Append(@, result),
              !.si = @ + 1, !.page = 1, !.allClasses = <<>>, !.log = <<>>,
              !.pc = IF p.si < Len(Departments) /\ ~FetchFailed(p.log)
                     THEN "fetch" ELSE "summary"]

\* the loop of main after processSubject returned result: results.push,
\* then the next department, or the summary after the last
AfterSubject(p, result) ==
    [p EXCEPT !.results = Append(@, result),
              !.si = @ + 1, !.page = 1, !.allClasses = <<>>, !.log = <<>>,
              !.pc = IF p.si < Len(Departments) THEN "fetch" ELSE "summary"]

\* what processSubject returns, with what the fetch of the subject was
SubjectResult(success, subject, message, stats, log, courseDocs) ==
    [success |-> success, subject |-> subject, message |-> message,
     stats |-> stats, fetchFailed |-> FetchFailed(log),
     courses |-> {courseDocs[k].catalog_nbr : k \in 1..Len(courseDocs)}]

\* processSubject after fetchAllPagesForSubject returned: the early return
\* when no class was fetched; else processSISResponse and upsertSubject with
\* {replaceExisting: replace}, whose deleteMany may throw (storeOk), which
\* the catch of processSubject turns into a result without success
ProcessSubject(storeOk) ==
    /\ pipe.pc = "fetched"
    /\ LET subject == Departments[pipe.si]
           courseDocs == StoreDocs(pipe.allClasses, pipe.term)
           cleared == IF pipe.replace
                      THEN DeleteMany(store, pipe.term, subject) ELSE store
           upserted == BulkUpsert(cleared, courseDocs, ZeroStats)
       IN  IF NoClasses(pipe.allClasses)
           THEN /\ store' = store
                /\ pipe' = AfterSubject(pipe,
                              SubjectResult(TRUE, subject, "No classes found",
                                            ZeroStats, pipe.log, <<>>))
           ELSE IF pipe.replace /\ ~storeOk
                THEN /\ store' = store
                     /\ pipe' = AfterSubject(pipe,
                                   SubjectResult(FALSE, subject, "error",
                                                 ZeroStats, pipe.log, <<>>))
                ELSE /\ store' = upserted.store
                     /\ pipe' = AfterSubject(pipe,
                                   SubjectResult(TRUE, subject, "",
                                                 upserted.stats, pipe.log,
                                                 courseDocs))
    /\ UNCHANGED <<run, hist, normVars, sectVars, mergeVars, race>>

InitPipe ==
    /\ store \in SeedStores
    /\ run = IdleRun
    /\ hist = NoHist
    /\ NormIdle
    /\ SectIdle
    /\ MergeIdle
    /\ \E t \in RunTerms, replace \in BOOLEAN :
          pipe = [NoPipe EXCEPT !.pc = "fetch", !.term = t, !.replace = replace,
                                !.si = 1, !.page = 1]
    /\ race = NoRace

NextPipe ==
    \/ FetchPage
    \/ \E storeOk \in BOOLEAN : ProcessSubject(storeOk)

SpecPipe == InitPipe /\ [][NextPipe]_vars

(***************************************************************************)
(* Claims about the sync script (specification SpecPipe).                   *)
(***************************************************************************)
\* fetchAllPagesForSubject has returned for the subject at hand
Fetched == pipe.pc = "fetched"

\* the classes of the first n results of fetchSISPage, in page order
RECURSIVE ClassesOfPages(_, _)
ClassesOfPages(log, n) ==
    IF n = 0 THEN <<>> ELSE ClassesOfPages(log, n - 1) \o log[n].classes

\* the fetches before the first that failed or gave no class
GoodPages(log) ==
    Cardinality({n \in 1..Len(log) :
                    \A k \in 1..n : log[k].success /\ log[k].count > 0})

\* C27: fetchAllPagesForSubject makes at most 50 page fetches, stops at the
\* first page without records, at the first failed page or at the page
\* limit, and returns the records of the pages fetched with success before
\* the stop, in page order.
C27_PaginationEnds ==
    /\ Len(pipe.log) <= maxPages
    /\ Fetched =>
          LET good == GoodPages(pipe.log)
          IN  /\ pipe.allClasses = ClassesOfPages(pipe.log, good)
              /\ pipe.page - 1 = good
              /\ \/ Len(pipe.log) = good /\ good = maxPages
                 \/ /\ Len(pipe.log) = good + 1
                    /\ ~pipe.log[good + 1].success \/ pipe.log[good + 1].count = 0

\* the source never ran dry: the fetch stopped at the page limit, with the
\* classes of the first page in front
C27_Witness ==
    /\ Fetched
    /\ Len(pipe.log) = maxPages
    /\ pipe.log[maxPages].success /\ pipe.log[maxPages].count > 0
    /\ Len(pipe.allClasses) = maxPages + 1
    /\ pipe.allClasses[2].catalog_nbr = JStr("3140")

\* this step is processSubject after the fetch of its subject
SubjectStep == pipe.pc = "fetched" /\ Len(pipe'.results) = Len(pipe.results) + 1

\* the persisted Courses of the subject at hand
OfSubject(st) ==
    {d \in BagToSet(st) : d.term = pipe.term /\ d.subject = Departments[pipe.si]}

\* C28: when the fetch of a subject yields no record, by an empty or a
\* failed first page, processSubject leaves the store as it is, also with
\* --replace.
C28_EmptyFetchNoStoreOp ==
    [][(SubjectStep /\ pipe.allClasses = <<>>) =>
          /\ store' = store
          /\ pipe'.results[Len(pipe'.results)].stats = ZeroStats
          /\ pipe'.results[Len(pipe'.results)].success]_vars

\* a replace run whose second subject had a failed first page: its persisted
\* Course is still there
C28_Witness ==
    /\ pipe.pc = "summary" /\ pipe.replace
    /\ pipe.results[2].fetchFailed
    /\ pipe.results[2].message = "No classes found"
    /\ \E d \in BagToSet(store) :
          d.term = pipe.term /\ d.subject = OtherSubject /\ d.title = "Old"

\* C29: in replace mode, when the pagination of a subject stops on a page
\* error after at least one page fetched with success, every Course of the
\* (term, subject) persisted before is still persisted afterwards.
C29_PartialFetchKeepsData ==
    [][(/\ SubjectStep
        /\ pipe.replace
        /\ FetchFailed(pipe.log) /\ Len(pipe.log) > 1
        /\ pipe'.results[Len(pipe'.results)].success) =>
          \A d \in OfSubject(store) :
              \E e \in BagToSet(store') : KeyOf(e) = KeyOf(d)]_vars

\* C22: a failed page fetch for one subject ends the pagination of that
\* subject only: main goes on to every later subject, and each subject whose
\* fetch gave classes and whose store calls did not throw has its courses
\* persisted when the run ends.
C22_FetchFailureIsolated ==
    /\ pipe.pc \in {"fetch", "fetched", "summary"}
    /\ \A k \in 1..Len(pipe.results) : pipe.results[k].subject = Departments[k]
    /\ pipe.pc = "summary" =>
          /\ Len(pipe.results) = Len(Departments)
          /\ \A k \in 1..Len(pipe.results) :
                pipe.results[k].success =>
                    /\ pipe.results[k].stats.inserted + pipe.results[k].stats.updated
                          = Cardinality(pipe.results[k].courses)
                    /\ \A c \in pipe.results[k].courses :
                          \E d \in BagToSet(store) :
                              KeyOf(d) = <<pipe.term, Departments[k], c>>
                              /\ d.title = "Intro"

\* the fetch of the first subject failed on its second page; the second
\* subject was fetched and its two courses inserted
C22_Witness ==
    /\ pipe.pc = "summary"
    /\ pipe.results[1].fetchFailed /\ pipe.results[1].courses = {"2120"}
    /\ ~pipe.results[2].fetchFailed
    /\ pipe.results[2].courses = {"1110", "3140"}
    /\ pipe.results[2].stats.inserted = 1 /\ pipe.results[2].stats.updated = 1

(***************************************************************************)
(* Two upsertSubject calls with replaceExisting for one (term, subject) and *)
(* one batch, under way at once: each await of a store operation             *)
(* (deleteMany, findOne, findOneAndUpdate) is one step of its call.          *)
(***************************************************************************)
Callers == {"first", "second"}

\* an upsert that inserts when the findOne before it found nothing
UpsertAsFound(st, doc, isUpdate) ==
    IF isUpdate THEN FindOneAndUpdate(st, doc)
    ELSE AddOne(st, Persisted(doc.term, doc.subject, doc.catalog_nbr, doc.title, Now))

\* await MongoCourse.findOneAndUpdate(key, courseDoc, {upsert: true, ...}) of
\* the loop: the store looks the key up itself, whatever findOne returned
UpsertAwaited(st, doc, isUpdate) == FindOneAndUpdate(st, doc)

\* await MongoCourse.deleteMany({term, subject}) of call c, then resetStats
RaceDeleteMany(c) ==
    /\ race.pc = "racing"
    /\ race.at[c].pc = "deleteMany"
    /\ store' = DeleteMany(store, race.courseDocs[1].term, race.courseDocs[1].subject)
    /\ race' = [race EXCEPT !.at[c].pc = "findOne"]
    /\ UNCHANGED <<run, hist, normVars, sectVars, mergeVars, pipe>>

\* await MongoCourse.findOne(key) of call c, for its record at hand
RaceFindOne(c) ==
    /\ race.pc = "racing"
    /\ race.at[c].pc = "findOne"
    /\ race' = [race EXCEPT
                  !.at[c].isUpdate = IsUpdate(store, race.courseDocs[race.at[c].i + 1]),
                  !.at[c].pc = "findOneAndUpdate"]
    /\ UNCHANGED <<storeVars, normVars, sectVars, mergeVars, pipe>>

\* await MongoCourse.findOneAndUpdate of call c, the statistics, and the
\* next record, or the return after the last
RaceFindOneAndUpdate(c) ==
    /\ race.pc = "racing"
    /\ race.at[c].pc = "findOneAndUpdate"
    /\ store' = UpsertAwaited(store, race.courseDocs[race.at[c].i + 1],
                              race.at[c].isUpdate)
    /\ race' = [race EXCEPT
                  !.at[c].stats = IF race.at[c].isUpdate
                                  THEN [@ EXCEPT !.updated = @ + 1]
                                  ELSE [@ EXCEPT !.inserted = @ + 1],
                  !.at[c].i = @ + 1,
                  !.at[c].pc = IF race.at[c].i + 1 < Len(race.courseDocs)
                               THEN "findOne" ELSE "done"]
    /\ UNCHANGED <<run, hist, normVars, sectVars, mergeVars, pipe>>

\* the batches of (t, s) the schema accepts, with a record at least
RaceBatches(t, s) ==
    {b \in Batches(t, s) : b # <<>> /\ \A k \in 1..Len(b) : Valid(b[k])}

InitRace ==
    /\ store \in SeedStores
    /\ run = IdleRun
    /\ hist = NoHist
    /\ NormIdle
    /\ SectIdle
    /\ MergeIdle
    /\ pipe = NoPipe
    /\ \E t \in RunTerms, s \in RunSubjects :
          \E courseDocs \in RaceBatches(t, s) :
             race = [pc |-> "racing", courseDocs |-> courseDocs,
                     at |-> [c \in Callers |->
                               [pc |-> "deleteMany", i |-> 0, isUpdate |-> FALSE,
                                stats |-> ZeroStats]]]

NextRace ==
    \E c \in Callers :
        \/ RaceDeleteMany(c)
        \/ RaceFindOne(c)
        \/ RaceFindOneAndUpdate(c)

SpecRace == InitRace /\ [][NextRace]_vars

\* both calls have returned
BothDone == race.pc = "racing" /\ \A c \in Callers : race.at[c].pc = "done"

\* C30: when two upsertSubject calls with replaceExisting for the same
\* (term, subject) and batch, interleaved store operation by store
\* operation, have both returned, the store holds one document for each key
\* of the batch, with the content of the batch, and no other document of
\* the (term, subject).
C30_OverlappingRunsConverge ==
    BothDone =>
        PersistedFor(store, race.courseDocs[1].term, race.courseDocs[1].subject)
            = CoursesOf(race.courseDocs)

\* both calls returned, each having found one record of the batch of two
\* already stored by the other
C30_Witness ==
    /\ BothDone /\ Len(race.courseDocs) = 2
    /\ \A c \in Callers :
          race.at[c].stats.updated = 1 /\ race.at[c].stats.inserted = 1
    /\ BagCardinality(store) = 4

=============================================================================
